---- MODULE Spec2Model ----
(***************************************************************************)
(* A model of rdflib_sqlalchemy/store.py: the SQLAlchemy store that keeps  *)
(* RDF statements in four partition tables (type, asserted, literal,       *)
(* quoted), its insert planner, its delete and read paths, and the         *)
(* transaction events of every write handler.                              *)
(*                                                                         *)
(* Tables are bags of rows: the autoincrement id column is the only thing  *)
(* that tells two equal rows apart, so a row's multiplicity stands for it. *)
(* Python's None is the term None and the empty string   *)
(* in a language / datatype column stands for SQL NULL.                    *)
(***************************************************************************)
EXTENDS Integers, Sequences, FiniteSets, Bags

VARIABLES tables, STRONGLY_TYPED_TERMS, last, literalCache, engine, database,
          iterator, trans

vars ==
    <<tables, STRONGLY_TYPED_TERMS, last, literalCache, engine, database,
      iterator, trans>>
\* The store's engine and the tables the database holds.
lifecycle == << engine, database >>
\* A generator a caller holds, and a transaction a second caller has open.
steps == << iterator, trans >>

\* ------------------------------------------------------------------ bounds
\* Most rows the four partitions hold together.
MaxRows == 2
\* Most quads handed to one addN call.
MaxBatch == 2

\* ------------------------------------------------------- program constants
COUNT_SELECT == 0
CONTEXT_SELECT == 1
TRIPLE_SELECT == 2
TRIPLE_SELECT_NO_ORDER == 3
ASSERTED_NON_TYPE_PARTITION == 3
ASSERTED_TYPE_PARTITION == 4
QUOTED_PARTITION == 5
ASSERTED_LITERAL_PARTITION == 6
FULL_TRIPLE_PARTITIONS == {QUOTED_PARTITION, ASSERTED_LITERAL_PARTITION}

\* -------------------------------------------------------------------- terms
\* A term is a record [k, v, lang, dt, items]: k is the term's class
\* ("U" URIRef, "B" BNode, "L" Literal, "R" REGEXTerm, "list" a Python list,
\* "None" for None), v its string, lang / dt a Literal's language and
\* datatype ("" for None), items the members of a list.
Term(k, v, lang, dt, items) == [k |-> k, v |-> v, lang |-> lang, dt |-> dt, items |-> items]
None == Term("None", "", "", "", <<>>)
URIRef(v) == Term("U", v, "", "", <<>>)
BNode(v) == Term("B", v, "", "", <<>>)
Literal(v, lang, dt) == Term("L", v, lang, dt, <<>>)
REGEXTerm(v) == Term("R", v, "", "", <<>>)
List(items) == Term("list", "", "", "", items)
RDF_type == URIRef("type")

IsLiteral(t) == t.k = "L"
IsREGEXTerm(t) == t.k = "R"
IsList(t) == t.k = "list"
\* Python truth of a term: None and the empty list are false, and so is a
\* term whose string is empty.
Truthy(t) == IF IsList(t) THEN Len(t.items) > 0 ELSE t.k # "None" /\ t.v # ""

\* A context is a Graph or QuotedGraph with a URIRef identifier; NoContext is
\* the context argument None.
Context(cls, identifier) == [cls |-> cls, identifier |-> identifier]
NoContext == Context("None", "")
Graph(identifier) == Context("Graph", identifier)
QuotedGraph(identifier) == Context("QuotedGraph", identifier)
IsQuotedGraph(c) == c.cls = "QuotedGraph"

\* regexp(expr, item): re.compile(expr).match(item) is not None. The strings
\* of the model are atoms of which none is a prefix of another, so a regex
\* without metacharacters matches exactly its own text and ".*" matches all.
regexp(expr, item) == IF expr = ".*" THEN TRUE ELSE expr = item

\* x.startswith(prefix)
startswith(x, prefix) ==
    Len(x) >= Len(prefix) /\ SubSeq(x, 1, Len(prefix)) = prefix
\* skolemise(statement): a BNode becomes the URIRef "bnode:<id>".
sk(x) == IF x.k = "B" THEN URIRef("bnode:" \o x.v) ELSE x
skolemise(statement) == [i \in DOMAIN statement |-> sk(statement[i])]
\* deskolemise(statement): a URIRef that starts with "bnode:" becomes the
\* BNode of what follows the first colon.
dst(x) ==
    IF x.k = "U" /\ startswith(x.v, "bnode:")
    THEN BNode(SubSeq(x.v, Len("bnode:") + 1, Len(x.v)))
    ELSE x
deskolemise(statement) == [i \in DOMAIN statement |-> dst(statement[i])]

\* --------------------------------------------------- term-combination codes
Kinds == <<"U", "B", "L", "F", "V", "s">>
KindIndex(k) == CHOOSE i \in 1..Len(Kinds) : Kinds[i] = k
term_to_letter(t) == t.k
normalize_graph(c) == IF IsQuotedGraph(c) THEN "F" ELSE "U"
encode_combination(a, b, c, d) ==
    (((KindIndex(a) - 1) * Len(Kinds) + (KindIndex(b) - 1)) * Len(Kinds)
        + (KindIndex(c) - 1)) * Len(Kinds) + (KindIndex(d) - 1)
REVERSE_TERM_COMBINATIONS(code) ==
    LET n == Len(Kinds)
    IN  << Kinds[((code \div (n * n * n)) % n) + 1],
           Kinds[((code \div (n * n)) % n) + 1],
           Kinds[((code \div n) % n) + 1],
           Kinds[(code % n) + 1] >>
statement_to_term_combination(subject, predicate, obj, context) ==
    encode_combination(term_to_letter(subject), term_to_letter(predicate),
                       term_to_letter(obj), normalize_graph(context))
type_to_term_combination(member, klass, context) ==
    encode_combination(term_to_letter(member), "U",
                       term_to_letter(klass), normalize_graph(context))
\* construct_graph(ctxTerm): the graph class a context kind is rebuilt as.
construct_graph(ctxTerm) == IF ctxTerm = "F" THEN "QuotedGraph" ELSE "Graph"

\* ------------------------------------------------------------ insert planner
\* `obj.language or None`: an empty language is stored as NULL.
OrNone(x) == x

\* _build_type_sql_command: the row of the type_statements table.
build_type_sql_command(member, klass, context) ==
    [table |-> "type_statements",
     row |-> [member |-> member.v, klass |-> klass.v,
              context |-> context.identifier,
              termComb |-> type_to_term_combination(member, klass, context)]]

\* _build_literal_triple_sql_command: the row of the literal_statements table.
build_literal_triple_sql_command(subject, predicate, obj, context) ==
    [table |-> "literal_statements",
     row |-> [subject |-> subject.v, predicate |-> predicate.v, object |-> obj.v,
              context |-> context.identifier,
              termComb |-> statement_to_term_combination(subject, predicate, obj, context),
              objLanguage |-> IF IsLiteral(obj) THEN OrNone(obj.lang) ELSE "",
              objDatatype |-> IF IsLiteral(obj) THEN OrNone(obj.dt) ELSE ""]]

\* _build_triple_sql_command: the row of the quoted_statements table (with the
\* language / datatype parameters) or of the asserted_statements table.
build_triple_sql_command(subject, predicate, obj, context, quoted) ==
    IF quoted
    THEN [table |-> "quoted_statements",
          row |-> [subject |-> subject.v, predicate |-> predicate.v, object |-> obj.v,
                   context |-> context.identifier,
                   termComb |-> statement_to_term_combination(subject, predicate, obj, context),
                   objLanguage |-> IF IsLiteral(obj) THEN OrNone(obj.lang) ELSE "",
                   objDatatype |-> IF IsLiteral(obj) THEN OrNone(obj.dt) ELSE ""]]
    ELSE [table |-> "asserted_statements",
          row |-> [subject |-> subject.v, predicate |-> predicate.v, object |-> obj.v,
                   context |-> context.identifier,
                   termComb |-> statement_to_term_combination(subject, predicate, obj, context)]]

\* A planner without the rdf:type branch: every statement goes to the literal
\* or to the quoted/asserted table.
get_build_command_untyped(triple, context, quoted) ==
    IF IsLiteral(triple[3])
    THEN [command_type |-> "literal"] @@
         build_literal_triple_sql_command(triple[1], triple[2], triple[3], context)
    ELSE [command_type |-> "other"] @@
         build_triple_sql_command(triple[1], triple[2], triple[3], context, quoted)

\* _get_build_command: (command_type, statement, params); the statement is
\* the insert into `table` and the params are `row`.
get_build_command(triple, context, quoted) ==
    LET subject == triple[1]
        predicate == triple[2]
        obj == triple[3]
    IN  IF quoted \/ predicate # RDF_type
        THEN IF IsLiteral(obj)
             THEN [command_type |-> "literal"] @@
                  build_literal_triple_sql_command(subject, predicate, obj, context)
             ELSE [command_type |-> "other"] @@
                  build_triple_sql_command(subject, predicate, obj, context, quoted)
        ELSE [command_type |-> "type"] @@
             build_type_sql_command(subject, obj, context)

\* ---------------------------------------------------------- clause compiler
\* Each builder is the WHERE sub-clause as a predicate of a row; TRUE is the
\* absent clause (the builder returning None). An or_() of no clauses
\* restricts nothing.
RECURSIVE buildSubjClause(_, _)
buildSubjClause(subject, row) ==
    IF IsREGEXTerm(subject) THEN regexp(subject.v, row.subject)
    ELSE IF IsList(subject)
    THEN LET used == {i \in 1..Len(subject.items) : Truthy(subject.items[i])}
         IN  used = {} \/ \E i \in used : buildSubjClause(subject.items[i], row)
    ELSE IF subject # None THEN row.subject = subject.v
    ELSE TRUE

RECURSIVE buildPredClause(_, _)
buildPredClause(predicate, row) ==
    IF IsREGEXTerm(predicate) THEN regexp(predicate.v, row.predicate)
    ELSE IF IsList(predicate)
    THEN LET used == {i \in 1..Len(predicate.items) : Truthy(predicate.items[i])}
         IN  used = {} \/ \E i \in used : buildPredClause(predicate.items[i], row)
    ELSE IF predicate # None THEN row.predicate = predicate.v
    ELSE TRUE

RECURSIVE buildObjClause(_, _)
buildObjClause(obj, row) ==
    IF IsREGEXTerm(obj) THEN regexp(obj.v, row.object)
    ELSE IF IsList(obj)
    THEN LET used == {i \in 1..Len(obj.items) : Truthy(obj.items[i])}
         IN  used = {} \/ \E i \in used : buildObjClause(obj.items[i], row)
    ELSE IF obj # None THEN row.object = obj.v
    ELSE TRUE

buildContextClause(context, row) ==
    IF context # NoContext /\ context.identifier # ""
    THEN row.context = context.identifier
    ELSE TRUE

RECURSIVE buildTypeMemberClause(_, _)
buildTypeMemberClause(subject, row) ==
    IF IsREGEXTerm(subject) THEN regexp(subject.v, row.member)
    ELSE IF IsList(subject)
    THEN LET used == {i \in 1..Len(subject.items) : Truthy(subject.items[i])}
         IN  used = {} \/ \E i \in used : buildTypeMemberClause(subject.items[i], row)
    ELSE IF subject # None THEN row.member = subject.v
    ELSE TRUE

RECURSIVE buildTypeClassClause(_, _)
buildTypeClassClause(obj, row) ==
    IF IsREGEXTerm(obj) THEN regexp(obj.v, row.klass)
    ELSE IF IsList(obj)
    THEN LET used == {i \in 1..Len(obj.items) : Truthy(obj.items[i])}
         IN  used = {} \/ \E i \in used : buildTypeClassClause(obj.items[i], row)
    ELSE IF obj # None THEN row.klass = obj.v
    ELSE TRUE

buildLitDTypeClause(obj, row) ==
    IF IsLiteral(obj) /\ obj.dt # "" THEN row.objDatatype = obj.dt ELSE TRUE

buildLitLanguageClause(obj, row) ==
    IF IsLiteral(obj) /\ obj.lang # "" THEN row.objLanguage = obj.lang ELSE TRUE

\* buildClause: the and_ of the sub-clauses that are present.
buildClause(row, subject, predicate, obj, context, typeTable) ==
    IF typeTable
    THEN /\ buildTypeMemberClause(subject, row)
         /\ buildTypeClassClause(obj, row)
         /\ buildContextClause(context, row)
    ELSE /\ buildSubjClause(subject, row)
         /\ buildPredClause(predicate, row)
         /\ buildObjClause(obj, row)
         /\ buildContextClause(context, row)
         /\ buildLitDTypeClause(obj, row)
         /\ buildLitLanguageClause(obj, row)

\* The rows of a table a clause selects, and the table a delete leaves.
Where(table, subject, predicate, obj, context, typeTable) ==
    LET keep == {r \in DOMAIN table :
                    buildClause(r, subject, predicate, obj, context, typeTable)}
    IN  [r \in keep |-> table[r]]
Delete(table, subject, predicate, obj, context, typeTable) ==
    LET keep == {r \in DOMAIN table :
                    ~buildClause(r, subject, predicate, obj, context, typeTable)}
    IN  [r \in keep |-> table[r]]

\* The copies a bag holds of the members of S together.
RECURSIVE Copies(_, _)
Copies(bag, S) ==
    IF S = {} THEN 0
    ELSE LET x == CHOOSE x \in S : TRUE IN bag[x] + Copies(bag, S \ {x})

\* ----------------------------------------------------------- query compiler
\* The uniform row (without the id column) each partition is projected onto.
ProjectRow(r, tableType) ==
    IF tableType \in FULL_TRIPLE_PARTITIONS THEN r
    ELSE IF tableType = ASSERTED_TYPE_PARTITION
    THEN [subject |-> r.member, predicate |-> RDF_type.v, object |-> r.klass,
          context |-> r.context, termComb |-> r.termComb,
          objLanguage |-> "", objDatatype |-> ""]
    ELSE [subject |-> r.subject, predicate |-> r.predicate, object |-> r.object,
          context |-> r.context, termComb |-> r.termComb,
          objLanguage |-> "", objDatatype |-> ""]

\* One member select of the union: `rows` are the rows of the table the where
\* clause selects. A projection is one-to-one on the rows of a table.
SelectClause(rows, tableType, select_type) ==
    IF select_type = COUNT_SELECT THEN SetToBag({BagCardinality(rows)})
    ELSE IF select_type = CONTEXT_SELECT
    THEN LET cs == {r.context : r \in DOMAIN rows}
         IN  [c \in cs |-> Copies(rows, {r \in DOMAIN rows : r.context = c})]
    ELSE LET ps == {ProjectRow(r, tableType) : r \in DOMAIN rows}
         IN  [pr \in ps |->
                 rows[CHOOSE r \in DOMAIN rows : ProjectRow(r, tableType) = pr]]

\* union_select: UNION ALL of the member selects, or UNION (which drops
\* duplicate result rows) when distinct is set.
RECURSIVE UnionAll(_, _)
UnionAll(selectComponents, select_type) ==
    IF selectComponents = <<>> THEN EmptyBag
    ELSE SelectClause(Head(selectComponents).rows, Head(selectComponents).tableType,
                      select_type)
         (+) UnionAll(Tail(selectComponents), select_type)
union_select(selectComponents, distinct, select_type) ==
    IF distinct
    THEN SetToBag(BagToSet(UnionAll(selectComponents, select_type)))
    ELSE UnionAll(selectComponents, select_type)

\* ------------------------------------------------------ term cache / decoder
\* createTerm: the term a (string, kind, language, datatype) decodes to. The
\* caches hold terms equal to the ones constructed.
createTerm(termString, termType, objLanguage, objDatatype) ==
    IF termType = "L"
    THEN IF objLanguage # "" /\ objDatatype = "" THEN Literal(termString, objLanguage, "")
         ELSE IF objDatatype # "" /\ objLanguage = "" THEN Literal(termString, "", objDatatype)
         ELSE IF objLanguage = "" /\ objDatatype = "" THEN Literal(termString, "", "")
         ELSE Literal(termString, objDatatype, "")
    ELSE IF termType = "B" THEN BNode(termString)
    ELSE IF termType = "U" THEN URIRef(termString)
    ELSE Term(termType, termString, "", "", <<>>)

\* extractTriple: (s, p, o, (graphKlass, idKlass, context)) of a result row.
extractTriple(tupleRt, hardCodedContext) ==
    LET termCombString == REVERSE_TERM_COMBINATIONS(tupleRt.termComb)
        context == IF tupleRt.context # "" THEN tupleRt.context
                   ELSE hardCodedContext.identifier
    IN  [triple |-> << createTerm(tupleRt.subject, termCombString[1], "", ""),
                       createTerm(tupleRt.predicate, termCombString[2], "", ""),
                       createTerm(tupleRt.object, termCombString[3],
                                  tupleRt.objLanguage, tupleRt.objDatatype) >>,
         context |-> Context(construct_graph(termCombString[4]), context)]

\* store.literalCache is a dict, here a function from keys to Literals. A key
\* is a tuple of strings: createTerm looks a literal up under (termString,
\* objLanguage, objDatatype) and stores it under (termString, objLanguage),
\* (termString, objDatatype) or termString alone, the last written << s >>: a
\* Python str equals no tuple. uriCache, bnodeCache and otherCache are read and
\* written under one and the same key and are not state of the model.
literalCache_get_key(termString, objLanguage, objDatatype) ==
    << termString, objLanguage, objDatatype >>
literalCache_set_key(termString, objLanguage, objDatatype) ==
    IF objLanguage # "" /\ objDatatype = "" THEN << termString, objLanguage >>
    ELSE IF objDatatype # "" /\ objLanguage = "" THEN << termString, objDatatype >>
    ELSE IF objLanguage = "" /\ objDatatype = "" THEN << termString >>
    ELSE << termString, objDatatype >>

\* createTerm on a store whose literalCache is `cache`: the term returned,
\* the cache afterwards, and the events "hit" (the cached term is returned)
\* or "miss" (a Literal is constructed and stored).
createTerm_store(cache, termString, termType, objLanguage, objDatatype) ==
    LET get == literalCache_get_key(termString, objLanguage, objDatatype)
        set == literalCache_set_key(termString, objLanguage, objDatatype)
        rt == createTerm(termString, termType, objLanguage, objDatatype)
    IN  IF termType # "L" THEN [term |-> rt, cache |-> cache, events |-> << >>]
        ELSE IF get \in DOMAIN cache
        THEN [term |-> cache[get], cache |-> cache, events |-> << "hit" >>]
        ELSE [term |-> rt,
              cache |-> [k \in DOMAIN cache \cup {set} |->
                            IF k = set THEN rt ELSE cache[k]],
              events |-> << "miss" >>]

\* extractTriple's three createTerm calls on one result row.
extractTriple_store(cache, tupleRt) ==
    LET termCombString == REVERSE_TERM_COMBINATIONS(tupleRt.termComb)
        s == createTerm_store(cache, tupleRt.subject, termCombString[1], "", "")
        p == createTerm_store(s.cache, tupleRt.predicate, termCombString[2], "", "")
        o == createTerm_store(p.cache, tupleRt.object, termCombString[3],
                              tupleRt.objLanguage, tupleRt.objDatatype)
    IN  [cache |-> o.cache, events |-> s.events \o p.events \o o.events]

\* The loop of triples() over the fetched rows, in the engine's order.
RECURSIVE extractTriples_store(_, _)
extractTriples_store(cache, result) ==
    IF DOMAIN result = {} THEN [cache |-> cache, events |-> << >>]
    ELSE LET rt == CHOOSE rt \in DOMAIN result : TRUE
             one == extractTriple_store(cache, rt)
             rest == extractTriples_store(one.cache, result (-) SetToBag({rt}))
         IN  [cache |-> rest.cache, events |-> one.events \o rest.events]

\* --------------------------------------------------------------- read paths
Select(table, subject, predicate, obj, context, typeTable, tableType) ==
    [rows |-> Where(table, subject, predicate, obj, context, typeTable),
     tableType |-> tableType]

\* The literal and the non-type asserted partition are scanned under these
\* conditions (store.py lines 838-841 and 847-849, again at 865-868, 874-876).
ScanLiteral(strict, obj) ==
    ~strict \/ IsLiteral(obj) \/ ~Truthy(obj) \/ (strict /\ IsREGEXTerm(obj))
\* A test that scans the non-type asserted partition for every object.
ScanAssertedAlways(strict, obj) == TRUE
ScanAsserted(strict, obj) ==
    (~IsLiteral(obj) /\ ~(IsREGEXTerm(obj) /\ strict)) \/ ~Truthy(obj)

\* A test of the second branch that leaves out `not predicate`.
MatchesTypeRegexOnly(predicate) ==
    IsREGEXTerm(predicate) /\ regexp(predicate.v, RDF_type.v)
\* The test of the second branch (lines 830-832, again at 1045-1047): a regex
\* predicate that matches rdf:type, or a predicate that is false.
MatchesType(predicate) ==
    (IsREGEXTerm(predicate) /\ regexp(predicate.v, RDF_type.v)) \/ ~Truthy(predicate)

\* A test that scans the quoted partition for every call.
ScanQuotedAlways(context) == TRUE
\* The quoted partition is scanned when a context is given (line 882).
ScanQuoted(context) == context # NoContext

\* The select components triples() collects for a pattern.
triples_selects(tbls, strict, triple, context) ==
    LET subject == triple[1]
        predicate == triple[2]
        obj == triple[3]
        typeSel == Select(tbls.type_statements, subject, RDF_type, obj, context,
                          TRUE, ASSERTED_TYPE_PARTITION)
        litSel == IF ScanLiteral(strict, obj)
                  THEN << Select(tbls.literal_statements, subject, predicate, obj,
                                 context, FALSE, ASSERTED_LITERAL_PARTITION) >>
                  ELSE <<>>
        asSel == IF ScanAsserted(strict, obj)
                 THEN << Select(tbls.asserted_statements, subject, predicate, obj,
                                context, FALSE, ASSERTED_NON_TYPE_PARTITION) >>
                 ELSE <<>>
        byPredicate ==
            IF predicate = RDF_type THEN << typeSel >>
            ELSE IF MatchesType(predicate)
            THEN litSel \o asSel \o << typeSel >>
            ELSE litSel \o asSel
        quotedSel == IF ScanQuoted(context)
                     THEN << Select(tbls.quoted_statements, subject, predicate, obj,
                                    context, FALSE, QUOTED_PARTITION) >>
                     ELSE <<>>
    IN  byPredicate \o quotedSel

\* triples(): tripleCoverage, the contexts of every decoded triple. A context
\* list is a bag, the order of the rows of a union being the engine's.
triples_result(tbls, strict, triple, context) ==
    LET result == union_select(triples_selects(tbls, strict, triple, context),
                               FALSE, TRIPLE_SELECT_NO_ORDER)
        keys == {extractTriple(rt, context).triple : rt \in DOMAIN result}
        contextsOf(t) ==
            LET rts == {rt \in DOMAIN result : extractTriple(rt, context).triple = t}
                cs == {extractTriple(rt, context).context : rt \in rts}
            IN  [c \in cs |->
                    Copies(result, {rt \in rts : extractTriple(rt, context).context = c})]
    IN  [t \in keys |-> contextsOf(t)]

\* The cache effects of the same call.
triples_store(cache, tbls, strict, triple, context) ==
    extractTriples_store(cache,
        union_select(triples_selects(tbls, strict, triple, context),
                     FALSE, TRIPLE_SELECT_NO_ORDER))

\* triples_choices(): an empty list becomes the wildcard, then triples() is
\* called with the list; a pattern without a list slot yields nothing, and two
\* list slots fail the assertions.
triples_choices_fails(triple) ==
    Cardinality({i \in 1..3 : IsList(triple[i])}) > 1
\* The pattern triples() is called with: an empty list has become None.
triples_choices_triple(triple) ==
    LET unlist(t) == IF IsList(t) /\ ~Truthy(t) THEN None ELSE t
    IN  << unlist(triple[1]), unlist(triple[2]), unlist(triple[3]) >>
triples_choices_result(tbls, strict, triple, context) ==
    IF \E i \in 1..3 : IsList(triple[i])
    THEN triples_result(tbls, strict, triples_choices_triple(triple), context)
    ELSE << >>

\* The rows of a table buildContextClause selects.
ContextRows(table, context) ==
    LET keep == {r \in DOMAIN table : buildContextClause(context, r)}
    IN  [r \in keep |-> table[r]]

\* A __len__() whose union without a context drops duplicate counts.
len_result_distinct(tbls, context) ==
    LET typeSel == [rows |-> ContextRows(tbls.type_statements, context),
                    tableType |-> ASSERTED_TYPE_PARTITION]
        quotedSel == [rows |-> ContextRows(tbls.quoted_statements, context),
                      tableType |-> QUOTED_PARTITION]
        asSel == [rows |-> ContextRows(tbls.asserted_statements, context),
                  tableType |-> ASSERTED_NON_TYPE_PARTITION]
        litSel == [rows |-> ContextRows(tbls.literal_statements, context),
                   tableType |-> ASSERTED_LITERAL_PARTITION]
        q == IF context # NoContext
             THEN union_select(<< typeSel, quotedSel, asSel, litSel >>, TRUE, COUNT_SELECT)
             ELSE union_select(<< typeSel, asSel, litSel >>, TRUE, COUNT_SELECT)
        Total[S \in SUBSET DOMAIN q] ==
            IF S = {} THEN 0
            ELSE LET n == CHOOSE n \in S : TRUE IN n * q[n] + Total[S \ {n}]
    IN  Total[DOMAIN q]

\* __len__(): the sum of the rows of the COUNT_SELECT union.
len_result(tbls, context) ==
    LET typeSel == [rows |-> ContextRows(tbls.type_statements, context),
                    tableType |-> ASSERTED_TYPE_PARTITION]
        quotedSel == [rows |-> ContextRows(tbls.quoted_statements, context),
                      tableType |-> QUOTED_PARTITION]
        asSel == [rows |-> ContextRows(tbls.asserted_statements, context),
                  tableType |-> ASSERTED_NON_TYPE_PARTITION]
        litSel == [rows |-> ContextRows(tbls.literal_statements, context),
                   tableType |-> ASSERTED_LITERAL_PARTITION]
        q == IF context # NoContext
             THEN union_select(<< typeSel, quotedSel, asSel, litSel >>, TRUE, COUNT_SELECT)
             ELSE union_select(<< typeSel, asSel, litSel >>, FALSE, COUNT_SELECT)
        Total[S \in SUBSET DOMAIN q] ==
            IF S = {} THEN 0
            ELSE LET n == CHOOSE n \in S : TRUE IN n * q[n] + Total[S \ {n}]
    IN  Total[DOMAIN q]

\* contexts(): the argument triple=None.
NoTriple == <<>>
\* The select components contexts() collects; its clauses carry no context.
contexts_selects(tbls, strict, triple) ==
    IF triple # NoTriple
    THEN LET subject == triple[1]
             predicate == triple[2]
             obj == triple[3]
             typeSel == Select(tbls.type_statements, subject, RDF_type, obj, NoContext,
                               TRUE, ASSERTED_TYPE_PARTITION)
             litSel == IF ScanLiteral(strict, obj)
                       THEN << Select(tbls.literal_statements, subject, predicate, obj,
                                      NoContext, FALSE, ASSERTED_LITERAL_PARTITION) >>
                       ELSE <<>>
             asSel == IF ScanAsserted(strict, obj)
                      THEN << Select(tbls.asserted_statements, subject, predicate, obj,
                                     NoContext, FALSE, ASSERTED_NON_TYPE_PARTITION) >>
                      ELSE <<>>
             byPredicate ==
                 IF predicate = RDF_type THEN << typeSel >>
                 ELSE IF MatchesType(predicate)
                 THEN << typeSel >> \o litSel \o asSel
                 ELSE litSel \o asSel
         IN  byPredicate
                 \o << Select(tbls.quoted_statements, subject, predicate, obj,
                               NoContext, FALSE, QUOTED_PARTITION) >>
    ELSE << [rows |-> tbls.type_statements, tableType |-> ASSERTED_TYPE_PARTITION],
            [rows |-> tbls.quoted_statements, tableType |-> QUOTED_PARTITION],
            [rows |-> tbls.asserted_statements, tableType |-> ASSERTED_NON_TYPE_PARTITION],
            [rows |-> tbls.literal_statements, tableType |-> ASSERTED_LITERAL_PARTITION] >>

\* A contexts() whose union keeps duplicate rows.
contexts_result_all(tbls, strict, triple) ==
    LET rt == union_select(contexts_selects(tbls, strict, triple), FALSE, CONTEXT_SELECT)
    IN  [u \in {URIRef(context) : context \in DOMAIN rt} |-> rt[u.v]]
\* contexts(): a URIRef for every row of the distinct union of the context
\* columns.
contexts_result(tbls, strict, triple) ==
    LET rt == union_select(contexts_selects(tbls, strict, triple), TRUE, CONTEXT_SELECT)
    IN  [u \in {URIRef(context) : context \in DOMAIN rt} |-> rt[u.v]]

\* ---------------------------------------------------------- mutation engine
\* connection.execute(insert, params): one row per parameter set. The columns
\* of the insert are the keys of the first parameter set; a later set may
\* carry more keys, which are not read, and fails the execute when it lacks
\* one.
InsertFails(command) ==
    \E i \in 1..Len(command.params) :
        ~(DOMAIN command.params[1] \subseteq DOMAIN command.params[i])
RECURSIVE InsertRows(_, _)
InsertRows(table, params) ==
    IF params = <<>> THEN table
    ELSE InsertRows(table (+) SetToBag({Head(params)}), Tail(params))
ExecuteInsert(tbls, command) ==
    LET columns == DOMAIN command.params[1]
        rows == [i \in 1..Len(command.params) |->
                    [c \in columns |-> command.params[i][c]]]
    IN  [tbls EXCEPT ![command.table] = InsertRows(@, rows)]

\* The commands addN() builds: one per command type, in the order the types
\* first appear; setdefault keeps the statement of the first quad of a type.
RECURSIVE commands_dict(_, _)
commands_dict(quads, done) ==
    IF quads = <<>> THEN done
    ELSE LET q == Head(quads)
             c == get_build_command(<< q[1], q[2], q[3] >>, q[4], IsQuotedGraph(q[4]))
             at == {i \in 1..Len(done) : done[i].command_type = c.command_type}
         IN  IF at = {}
             THEN commands_dict(Tail(quads),
                      Append(done, [command_type |-> c.command_type,
                                    table |-> c.table, params |-> << c.row >>]))
             ELSE LET i == CHOOSE i \in at : TRUE
                  IN  commands_dict(Tail(quads),
                          [done EXCEPT ![i].params = Append(@, c.row)])

\* The first k commands (inserts or deletes) executed on the connection.
RECURSIVE ExecuteInserts(_, _, _)
ExecuteInserts(tbls, commands, k) ==
    IF k = 0 THEN tbls
    ELSE ExecuteInserts(ExecuteInsert(tbls, Head(commands)), Tail(commands), k - 1)

ExecuteDelete(tbls, d) ==
    [tbls EXCEPT ![d.table] =
        Delete(@, d.subject, d.predicate, d.obj, d.context, d.typeTable)]
RECURSIVE ExecuteDeletes(_, _, _)
ExecuteDeletes(tbls, deletes, k) ==
    IF k = 0 THEN tbls
    ELSE ExecuteDeletes(ExecuteDelete(tbls, Head(deletes)), Tail(deletes), k - 1)

\* A rollback that keeps what the connection executed.
RollbackKeepsExecuted(begun, executed) == executed

\* trans.commit() keeps what the connection executed, trans.rollback()
\* restores the rows the transaction began with.
Commit(begun, executed) == executed
Rollback(begun, executed) == begun

DeleteOf(table, subject, predicate, obj, context, typeTable) ==
    [table |-> table, subject |-> subject, predicate |-> predicate, obj |-> obj,
     context |-> context, typeTable |-> typeTable]

\* Line 743 tests the builtin `object`, not the argument `obj`.
object_is_None == FALSE
remove_delegates(triple, context) ==
    context # NoContext /\ triple[1] = None /\ triple[2] = None /\ object_is_None

\* The deletes remove() issues, in order (store.py lines 755-786).
remove_deletes(strict, triple, context) ==
    LET subject == triple[1]
        predicate == triple[2]
        obj == triple[3]
        nonType ==
            IF ~Truthy(predicate) \/ predicate # RDF_type
            THEN (IF ~strict \/ IsLiteral(obj)
                  THEN << DeleteOf("literal_statements", subject, predicate, obj,
                                   context, FALSE) >>
                  ELSE <<>>)
                 \o << DeleteOf("quoted_statements", subject, predicate, obj,
                                context, FALSE) >>
                 \o (IF IsLiteral(obj) THEN <<>>
                     ELSE << DeleteOf("asserted_statements", subject, predicate, obj,
                                      context, FALSE) >>)
            ELSE <<>>
        typed ==
            IF predicate = RDF_type \/ ~Truthy(predicate)
            THEN << DeleteOf("type_statements", subject, RDF_type, obj, context, TRUE),
                    DeleteOf("quoted_statements", subject, predicate, obj, context, FALSE) >>
            ELSE <<>>
    IN  nonType \o typed

\* The deletes _remove_context() issues, in order.
remove_context_deletes(identifier) ==
    << DeleteOf("quoted_statements", None, None, None, identifier, FALSE),
       DeleteOf("asserted_statements", None, None, None, identifier, FALSE),
       DeleteOf("type_statements", None, None, None, identifier, TRUE),
       DeleteOf("literal_statements", None, None, None, identifier, FALSE) >>

\* ------------------------------------------------------------------ inputs
Subjects == {URIRef("s")}
Predicates == {RDF_type, URIRef("p")}
Objects == {URIRef("x"), Literal("x", "en", "")}
Contexts == {Graph("c1"), QuotedGraph("c2")}
Statements == {<< s, p, o >> : s \in Subjects, p \in Predicates, o \in Objects}
Quads == {<< s, p, o, c >> : s \in Subjects, p \in Predicates, o \in Objects,
                             c \in Contexts}
Batches == UNION {[1..n -> Quads] : n \in 0..MaxBatch}

\* Patterns: every predicate shape with an absent, a URI and a literal object,
\* every object shape with an absent and a concrete predicate, all under a
\* wildcard subject; the concrete statements; and a list in the subject slot.
SubjectPatterns == {List(<< URIRef("s") >>), List(<<>>)}
PredicatePatterns ==
    {None, REGEXTerm(".*"), List(<< RDF_type, URIRef("p") >>), List(<<>>)}
        \cup Predicates
ObjectPatterns ==
    {None, Literal("x", "", ""), REGEXTerm("x"),
     List(<< URIRef("x"), Literal("x", "en", "") >>), List(<<>>)} \cup Objects
Patterns ==
    {<< None, p, o >> : p \in PredicatePatterns, o \in {None} \cup Objects}
        \cup {<< None, p, o >> : p \in {None, URIRef("p")}, o \in ObjectPatterns}
        \cup {<< s, p, o >> : s \in Subjects, p \in Predicates,
                              o \in Objects \cup {Literal("x", "", "")}}
        \cup {<< s, None, None >> : s \in SubjectPatterns}
\* The patterns of the removes the engine fails.
FailPatterns == {<< None, None, None >>} \cup Statements
ListPatterns == {t \in Patterns : \E i \in 1..3 : IsList(t[i])}
ContextPatterns == {NoContext} \cup Contexts

\* --------------------------------------------------------------- lifecycle
\* The values of store.engine: None, an Engine that create_engine returned,
\* or an int.
NoEngine == [cls |-> "NoneType", value |-> 0]
Engine == [cls |-> "Engine", value |-> 0]
IntValue(n) == [cls |-> "int", value |-> n]
\* rdflib.store's return codes of open().
VALID_STORE == 1
CORRUPTED_STORE == 0
\* The store's four tables.
table_names ==
    {"type_statements", "asserted_statements", "literal_statements",
     "quoted_statements"}
verify_store_exists(existing_table_names) ==
    IF table_names \subseteq existing_table_names THEN VALID_STORE
    ELSE CORRUPTED_STORE
\* What open(configuration, create) leaves and returns: the engine is set
\* before the tables are created and verified, and stays set when open raises.
open_result(existing_table_names, create) ==
    LET created == IF create THEN existing_table_names \cup table_names
                   ELSE existing_table_names
        ret_value == verify_store_exists(created)
    IN  [database |-> created, ret_value |-> ret_value,
         raises |-> ret_value # VALID_STORE /\ ~create]

\* ------------------------------------------------- generators, transactions
\* A generator of triples() or contexts(): its arguments, the statement of
\* its body it stands at (pc), the rows it has fetched, what it has still to
\* yield, the connections it holds and what it has done, in order.
Iterator(op, triple, context, pc, rows, items, held, log) ==
    [op |-> op, triple |-> triple, context |-> context, pc |-> pc, rows |-> rows,
     items |-> items, held |-> held, log |-> log]
NoIterator == Iterator("none", << None, None, None >>, NoContext, "none", EmptyBag, 0, 0, <<>>)
\* A transaction of addN() or remove(): the commands or deletes of the call,
\* how many of them the connection has executed, the rows the transaction
\* began with and the rows as the transaction has them.
Trans(op, commands, executed, begun, work) ==
    [op |-> op, commands |-> commands, executed |-> executed, begun |-> begun,
     work |-> work]
NoTrans ==
    Trans("none", <<>>, 0,
          [type_statements |-> EmptyBag, asserted_statements |-> EmptyBag,
           literal_statements |-> EmptyBag, quoted_statements |-> EmptyBag],
          [type_statements |-> EmptyBag, asserted_statements |-> EmptyBag,
           literal_statements |-> EmptyBag, quoted_statements |-> EmptyBag])

\* ------------------------------------------------------------------- state
\* tables: the rows of the four partitions. STRONGLY_TYPED_TERMS: the store's
\* switch. last: the call the store has just served (its arguments, the
\* transaction events of its connection in order, and what it returned), or
\* Idle once the caller has taken the outcome.
Call(op, triple, context, quoted, quads, log, result) ==
    [op |-> op, triple |-> triple, context |-> context, quoted |-> quoted,
     quads |-> quads, log |-> log, result |-> result]
Idle == Call("idle", << None, None, None >>, NoContext, FALSE, <<>>, <<>>, <<>>)

Rows(tbls) ==
    BagCardinality(tbls.type_statements) + BagCardinality(tbls.asserted_statements)
        + BagCardinality(tbls.literal_statements) + BagCardinality(tbls.quoted_statements)

Executes(k) == [i \in 1..k |-> "execute"]
Min(S) == CHOOSE x \in S : \A y \in S : x <= y

\* Init: the store constructed with a configuration, which opens it and
\* creates its tables.
Init ==
    /\ tables = [type_statements |-> EmptyBag, asserted_statements |-> EmptyBag,
                 literal_statements |-> EmptyBag, quoted_statements |-> EmptyBag]
    /\ STRONGLY_TYPED_TERMS = FALSE
    /\ literalCache = << >>
    /\ last = Idle
    /\ engine = Engine
    /\ database = table_names
    /\ iterator = NoIterator
    /\ trans = NoTrans

\* store.STRONGLY_TYPED_TERMS = b
SetStronglyTypedTerms(b) ==
    /\ last.op = "idle"
    /\ STRONGLY_TYPED_TERMS # b
    /\ STRONGLY_TYPED_TERMS' = b
    /\ UNCHANGED << tables, last, literalCache >>
    /\ UNCHANGED lifecycle
    /\ UNCHANGED steps

\* add(): one insert on an autocommit connection; a failed execute is logged
\* and raised.
add(triple, context, quoted, fails) ==
    /\ last.op = "idle"
    /\ LET c == get_build_command(triple, context, quoted)
           command == [command_type |-> c.command_type, table |-> c.table,
                       params |-> << c.row >>]
       IN  IF fails
           THEN /\ tables' = tables
                /\ last' = Call("add", triple, context, quoted, <<>>,
                                << "fail", "raise" >>, <<>>)
           ELSE /\ Rows(tables) < MaxRows
                /\ tables' = ExecuteInsert(tables, command)
                /\ last' = Call("add", triple, context, quoted, <<>>,
                                << "execute" >>, <<>>)
    /\ UNCHANGED << STRONGLY_TYPED_TERMS, literalCache >>
    /\ UNCHANGED lifecycle
    /\ UNCHANGED steps

\* addN(): the commands of the batch in one transaction; `fail` is the execute
\* the engine fails (0: none).
addN(quads, fail) ==
    /\ last.op = "idle"
    /\ Rows(tables) + Len(quads) <= MaxRows
    /\ LET commands == commands_dict(quads, <<>>)
           n == Len(commands)
           failing == {i \in 1..n : InsertFails(commands[i]) \/ i = fail}
       IN  /\ fail <= n
           /\ IF failing = {}
              THEN /\ tables' = Commit(tables, ExecuteInserts(tables, commands, n))
                   /\ last' = Call("addN", << None, None, None >>, NoContext, FALSE,
                                   quads, << "begin" >> \o Executes(n) \o << "commit" >>,
                                   <<>>)
              ELSE /\ tables' = Rollback(tables,
                                    ExecuteInserts(tables, commands, Min(failing) - 1))
                   /\ last' = Call("addN", << None, None, None >>, NoContext, FALSE,
                                   quads,
                                   << "begin" >> \o Executes(Min(failing) - 1)
                                       \o << "fail", "rollback", "raise" >>,
                                   <<>>)
    /\ UNCHANGED << STRONGLY_TYPED_TERMS, literalCache >>
    /\ UNCHANGED lifecycle
    /\ UNCHANGED steps

\* remove(): the deletes of the pattern in one transaction; `fail` is the
\* execute the engine fails (0: none). A failure is logged and rolled back,
\* and remove() returns.
remove(triple, context, fail) ==
    /\ last.op = "idle"
    /\ LET delegates == remove_delegates(triple, context)
           deletes == IF delegates THEN remove_context_deletes(context)
                      ELSE remove_deletes(STRONGLY_TYPED_TERMS, triple, context)
           n == Len(deletes)
           path == IF delegates THEN "_remove_context" ELSE "remove"
       IN  /\ fail <= n
           /\ IF fail = 0
              THEN /\ tables' = Commit(tables, ExecuteDeletes(tables, deletes, n))
                   /\ last' = Call("remove", triple, context, FALSE, <<>>,
                                   << "begin" >> \o Executes(n) \o << "commit" >>, path)
              ELSE /\ tables' = Rollback(tables, ExecuteDeletes(tables, deletes, fail - 1))
                   /\ last' = Call("remove", triple, context, FALSE, <<>>,
                                   << "begin" >> \o Executes(fail - 1)
                                       \o << "fail", "rollback" >>, path)
    /\ UNCHANGED << STRONGLY_TYPED_TERMS, literalCache >>
    /\ UNCHANGED lifecycle
    /\ UNCHANGED steps

\* _remove_context(): the four deletes of a context in one transaction.
remove_context(identifier, fail) ==
    /\ last.op = "idle"
    /\ LET deletes == remove_context_deletes(identifier)
           n == Len(deletes)
       IN  /\ fail <= n
           /\ IF fail = 0
              THEN /\ tables' = Commit(tables, ExecuteDeletes(tables, deletes, n))
                   /\ last' = Call("_remove_context", << None, None, None >>, identifier,
                                   FALSE, <<>>,
                                   << "begin" >> \o Executes(n) \o << "commit" >>,
                                   "_remove_context")
              ELSE /\ tables' = Rollback(tables, ExecuteDeletes(tables, deletes, fail - 1))
                   /\ last' = Call("_remove_context", << None, None, None >>, identifier,
                                   FALSE, <<>>,
                                   << "begin" >> \o Executes(fail - 1)
                                       \o << "fail", "rollback" >>,
                                   "_remove_context")
    /\ UNCHANGED << STRONGLY_TYPED_TERMS, literalCache >>
    /\ UNCHANGED lifecycle
    /\ UNCHANGED steps

\* triples(): one query, its rows decoded and grouped.
triples(triple, context) ==
    /\ last.op = "idle"
    /\ LET store == triples_store(literalCache, tables, STRONGLY_TYPED_TERMS,
                                  triple, context)
       IN  /\ last' = Call("triples", triple, context, FALSE, <<>>,
                           << "execute" >> \o store.events,
                           triples_result(tables, STRONGLY_TYPED_TERMS, triple, context))
           /\ literalCache' = store.cache
    /\ UNCHANGED << tables, STRONGLY_TYPED_TERMS >>
    /\ UNCHANGED lifecycle
    /\ UNCHANGED steps

\* triples_choices(): an assertion fails when two slots hold lists; with one
\* list slot triples() is called, and with none nothing is.
triples_choices(triple, context) ==
    /\ last.op = "idle"
    /\ IF triples_choices_fails(triple)
       THEN /\ last' = Call("triples_choices", triple, context, FALSE, <<>>,
                            << "raise" >>, <<>>)
            /\ UNCHANGED literalCache
       ELSE IF \E i \in 1..3 : IsList(triple[i])
       THEN LET store == triples_store(literalCache, tables, STRONGLY_TYPED_TERMS,
                                       triples_choices_triple(triple), context)
            IN  /\ last' = Call("triples_choices", triple, context, FALSE, <<>>,
                                << "execute" >> \o store.events,
                                triples_choices_result(tables, STRONGLY_TYPED_TERMS,
                                                       triple, context))
                /\ literalCache' = store.cache
       ELSE /\ last' = Call("triples_choices", triple, context, FALSE, <<>>,
                            <<>>, <<>>)
            /\ UNCHANGED literalCache
    /\ UNCHANGED << tables, STRONGLY_TYPED_TERMS >>
    /\ UNCHANGED lifecycle
    /\ UNCHANGED steps

\* __len__(): one count query.
len(context) ==
    /\ last.op = "idle"
    /\ last' = Call("__len__", << None, None, None >>, context, FALSE, <<>>,
                    << "execute" >>, len_result(tables, context))
    /\ UNCHANGED << tables, STRONGLY_TYPED_TERMS, literalCache >>
    /\ UNCHANGED lifecycle
    /\ UNCHANGED steps

\* contexts(): one query; the rows are not decoded through the caches.
contexts(triple) ==
    /\ last.op = "idle"
    /\ last' = Call("contexts", triple, NoContext, FALSE, <<>>, << "execute" >>,
                    contexts_result(tables, STRONGLY_TYPED_TERMS, triple))
    /\ UNCHANGED << tables, STRONGLY_TYPED_TERMS, literalCache >>
    /\ UNCHANGED lifecycle
    /\ UNCHANGED steps

\* open(): close(), a new engine, the tables created when create is set.
open(create) ==
    /\ last.op = "idle"
    /\ LET o == open_result(database, create)
       IN  /\ engine' = Engine
           /\ database' = o.database
           /\ last' = Call("open", << None, None, None >>, NoContext, FALSE, <<>>,
                           IF o.raises THEN << "raise" >> ELSE <<>>,
                           IF o.raises THEN <<>> ELSE o.ret_value)
    /\ UNCHANGED << tables, STRONGLY_TYPED_TERMS, literalCache >>
    /\ UNCHANGED steps

\* close()
close ==
    /\ last.op = "idle"
    /\ engine' = NoEngine
    /\ last' = Call("close", << None, None, None >>, NoContext, FALSE, <<>>, <<>>, <<>>)
    /\ UNCHANGED << tables, STRONGLY_TYPED_TERMS, literalCache, database >>
    /\ UNCHANGED steps

\* destroy(): with no engine, open(configuration, create=False) first, whose
\* RuntimeError is passed on and whose return value is assigned to
\* self.engine (line 635); then self.engine.connect(), which only an Engine
\* has; then drop_all in a transaction, a failure of which is logged.
destroy(fails) ==
    /\ last.op = "idle"
    /\ LET o == open_result(database, FALSE)
           opened == IF engine = NoEngine
                     THEN (IF o.raises THEN Engine
                           ELSE IntValue(o.ret_value))
                     ELSE engine
           raises == (engine = NoEngine /\ o.raises) \/ opened.cls # "Engine"
       IN  /\ engine' = opened
           /\ IF raises
              THEN /\ last' = Call("destroy", << None, None, None >>, NoContext, FALSE,
                                   <<>>, << "raise" >>, <<>>)
                   /\ UNCHANGED << tables, database >>
              ELSE IF fails
              THEN /\ last' = Call("destroy", << None, None, None >>, NoContext, FALSE,
                                   <<>>, << "begin", "fail", "rollback" >>, <<>>)
                   /\ UNCHANGED << tables, database >>
              ELSE /\ last' = Call("destroy", << None, None, None >>, NoContext, FALSE,
                                   <<>>, << "begin", "execute", "commit" >>, <<>>)
                   /\ database' = database \ table_names
                   /\ tables' = [q \in DOMAIN tables |-> EmptyBag]
    /\ UNCHANGED << STRONGLY_TYPED_TERMS, literalCache >>
    /\ UNCHANGED steps

\* An accessor that returns no subjects instead of raising.
subjects_empty(predicate, obj) ==
    /\ last.op = "idle"
    /\ last' = Call("subjects", << None, predicate, obj >>, NoContext, FALSE, <<>>,
                    <<>>, <<>>)
    /\ UNCHANGED << tables, STRONGLY_TYPED_TERMS, literalCache >>
    /\ UNCHANGED lifecycle
    /\ UNCHANGED steps

\* The placeholder accessors: each raises Exception("Not implemented") when
\* it is called, whatever its arguments (value's default and any included).
subjects(predicate, obj) ==
    /\ last.op = "idle"
    /\ last' = Call("subjects", << None, predicate, obj >>, NoContext, FALSE, <<>>,
                    << "raise" >>, <<>>)
    /\ UNCHANGED << tables, STRONGLY_TYPED_TERMS, literalCache >>
    /\ UNCHANGED lifecycle
    /\ UNCHANGED steps
objects(subject, predicate) ==
    /\ last.op = "idle"
    /\ last' = Call("objects", << subject, predicate, None >>, NoContext, FALSE, <<>>,
                    << "raise" >>, <<>>)
    /\ UNCHANGED << tables, STRONGLY_TYPED_TERMS, literalCache >>
    /\ UNCHANGED lifecycle
    /\ UNCHANGED steps
predicate_objects(subject) ==
    /\ last.op = "idle"
    /\ last' = Call("predicate_objects", << subject, None, None >>, NoContext, FALSE,
                    <<>>, << "raise" >>, <<>>)
    /\ UNCHANGED << tables, STRONGLY_TYPED_TERMS, literalCache >>
    /\ UNCHANGED lifecycle
    /\ UNCHANGED steps
subject_objects(predicate) ==
    /\ last.op = "idle"
    /\ last' = Call("subject_objects", << None, predicate, None >>, NoContext, FALSE,
                    <<>>, << "raise" >>, <<>>)
    /\ UNCHANGED << tables, STRONGLY_TYPED_TERMS, literalCache >>
    /\ UNCHANGED lifecycle
    /\ UNCHANGED steps
subject_predicates(obj) ==
    /\ last.op = "idle"
    /\ last' = Call("subject_predicates", << None, None, obj >>, NoContext, FALSE,
                    <<>>, << "raise" >>, <<>>)
    /\ UNCHANGED << tables, STRONGLY_TYPED_TERMS, literalCache >>
    /\ UNCHANGED lifecycle
    /\ UNCHANGED steps
value(subject, predicate, obj) ==
    /\ last.op = "idle"
    /\ last' = Call("value", << subject, predicate, obj >>, NoContext, FALSE, <<>>,
                    << "raise" >>, <<>>)
    /\ UNCHANGED << tables, STRONGLY_TYPED_TERMS, literalCache >>
    /\ UNCHANGED lifecycle
    /\ UNCHANGED steps

\* The caller takes the outcome of the call.
Return ==
    /\ last.op # "idle"
    /\ last' = Idle
    /\ UNCHANGED << tables, STRONGLY_TYPED_TERMS, literalCache >>
    /\ UNCHANGED lifecycle
    /\ UNCHANGED steps

MaxExecutes == Len(remove_deletes(FALSE, << None, None, None >>, NoContext))

\* A call is made, with any arguments, once the caller holds no outcome.
DoSetStronglyTypedTerms ==
    last.op = "idle" /\ \E b \in BOOLEAN : SetStronglyTypedTerms(b)
DoAdd ==
    /\ last.op = "idle"
    /\ \E t \in Statements, c \in Contexts, quoted \in BOOLEAN, fails \in BOOLEAN :
           add(t, c, quoted, fails)
DoAddN ==
    last.op = "idle" /\ \E quads \in Batches, fail \in 0..MaxBatch : addN(quads, fail)
DoRemove ==
    /\ last.op = "idle"
    /\ \/ \E t \in Patterns, c \in ContextPatterns : remove(t, c, 0)
       \/ \E t \in FailPatterns, c \in ContextPatterns, fail \in 1..MaxExecutes :
              remove(t, c, fail)
DoRemoveContext ==
    /\ last.op = "idle"
    /\ \E c \in Contexts, fail \in 0..MaxExecutes : remove_context(c, fail)
DoTriples ==
    last.op = "idle" /\ \E t \in Patterns, c \in ContextPatterns : triples(t, c)
DoTriplesChoices ==
    /\ last.op = "idle"
    /\ \E t \in ListPatterns \cup Statements, c \in ContextPatterns :
           triples_choices(t, c)
DoLen ==
    last.op = "idle" /\ \E c \in ContextPatterns : len(c)

\* The arguments of the placeholder accessors: absent or given.
AccessorSubjects == {None, URIRef("s")}
AccessorPredicates == {None, URIRef("p")}
AccessorObjects == {None, Literal("x", "en", "")}
DoUnimplemented ==
    /\ last.op = "idle"
    /\ \/ \E predicate \in AccessorPredicates, obj \in AccessorObjects :
              subjects(predicate, obj)
       \/ \E subject \in AccessorSubjects, predicate \in AccessorPredicates :
              objects(subject, predicate)
       \/ \E subject \in AccessorSubjects : predicate_objects(subject)
       \/ \E predicate \in AccessorPredicates : subject_objects(predicate)
       \/ \E obj \in AccessorObjects : subject_predicates(obj)
       \/ \E subject \in AccessorSubjects, predicate \in AccessorPredicates,
             obj \in AccessorObjects : value(subject, predicate, obj)

Next ==
    \/ DoSetStronglyTypedTerms
    \/ DoAdd
    \/ DoAddN
    \/ DoRemove
    \/ DoRemoveContext
    \/ DoTriples
    \/ DoTriplesChoices
    \/ DoLen
    \/ DoUnimplemented
    \/ Return

Spec == Init /\ [][Next]_vars

\* --------------------------------------------------- partition selection
\* The same store, written by single adds of one statement per partition and
\* read by triples() and contexts() with every shape of predicate and object.
ScanAdds ==
    {<< << URIRef("s"), RDF_type, URIRef("x") >>, Graph("c1"), FALSE >>,
     << << URIRef("s"), URIRef("p"), URIRef("x") >>, Graph("c1"), FALSE >>,
     << << URIRef("s"), URIRef("p"), Literal("x", "en", "") >>, Graph("c1"), FALSE >>,
     << << URIRef("s"), URIRef("p"), URIRef("x") >>, QuotedGraph("c2"), TRUE >>}
ScanPredicates ==
    {None, RDF_type, URIRef("p"), REGEXTerm(".*"), REGEXTerm("p"),
     List(<< RDF_type, URIRef("p") >>), List(<<>>)}
ScanObjects ==
    {None, URIRef("x"), Literal("x", "en", ""), Literal("", "", ""), REGEXTerm("x"),
     List(<< URIRef("x"), Literal("x", "en", "") >>), List(<<>>)}
ScanPatterns == {<< None, p, o >> : p \in ScanPredicates, o \in ScanObjects}
DoScanAdd ==
    last.op = "idle" /\ \E a \in ScanAdds : add(a[1], a[2], a[3], FALSE)
DoScanTriples ==
    last.op = "idle" /\ \E t \in ScanPatterns, c \in ContextPatterns : triples(t, c)
DoContexts ==
    last.op = "idle" /\ \E t \in ScanPatterns \cup {NoTriple} : contexts(t)
NextScan ==
    \/ DoSetStronglyTypedTerms
    \/ DoScanAdd
    \/ DoScanTriples
    \/ DoContexts
    \/ Return
SpecScan == Init /\ [][NextScan]_vars

\* ---------------------------------------------------------- store lifecycle
\* A store constructed with or without a configuration, on a database that
\* holds the store's tables or does not; it is opened, closed and destroyed,
\* and written while it is open and its tables exist.
InitLifecycle ==
    /\ tables = [type_statements |-> EmptyBag, asserted_statements |-> EmptyBag,
                 literal_statements |-> EmptyBag, quoted_statements |-> EmptyBag]
    /\ STRONGLY_TYPED_TERMS = FALSE
    /\ literalCache = << >>
    /\ last = Idle
    /\ \/ engine = Engine /\ database = table_names
       \/ engine = NoEngine /\ database \in {{}, table_names}
    /\ iterator = NoIterator
    /\ trans = NoTrans
DoOpen == last.op = "idle" /\ \E create \in BOOLEAN : open(create)
DoClose == last.op = "idle" /\ close
DoDestroy == last.op = "idle" /\ \E fails \in BOOLEAN : destroy(fails)
DoLifecycleAdd ==
    /\ last.op = "idle"
    /\ engine = Engine /\ database = table_names
    /\ \E a \in ScanAdds : add(a[1], a[2], a[3], FALSE)
NextLifecycle ==
    \/ DoOpen
    \/ DoClose
    \/ DoDestroy
    \/ DoLifecycleAdd
    \/ Return
SpecLifecycle == InitLifecycle /\ [][NextLifecycle]_vars

\* ----------------------------------------------------------- read buffering
\* triples() and contexts() are generator functions: the call runs nothing,
\* and the body runs, statement by statement, when the caller iterates. The
\* store is written by single adds meanwhile.
triples_generator(triple, context) ==
    /\ iterator.op = "none"
    /\ iterator' = Iterator("triples", triple, context, "start", EmptyBag, 0, 0, <<>>)
    /\ UNCHANGED << tables, STRONGLY_TYPED_TERMS, last, literalCache, lifecycle, trans >>
contexts_generator(triple) ==
    /\ iterator.op = "none"
    /\ iterator' = Iterator("contexts", triple, NoContext, "start", EmptyBag, 0, 0, <<>>)
    /\ UNCHANGED << tables, STRONGLY_TYPED_TERMS, last, literalCache, lifecycle, trans >>

\* with self.engine.connect() as connection:
iterator_connect ==
    /\ iterator.pc = "start"
    /\ iterator' = [iterator EXCEPT !.pc = "connect", !.held = @ + 1,
                                    !.log = Append(@, "connect")]
    /\ UNCHANGED << tables, STRONGLY_TYPED_TERMS, last, literalCache, lifecycle, trans >>

\* A with statement that leaves the connection open.
ConnectionKept(held) == held
\* Leaving the with statement closes the connection, on every path.
ConnectionAfterWith(held) == held - 1

\* res = connection.execute(q); a failure leaves the with statement and is
\* raised to the caller.
iterator_execute(fails) ==
    /\ iterator.pc = "connect"
    /\ iterator' = IF fails
                   THEN [iterator EXCEPT !.pc = "done",
                                         !.held = ConnectionAfterWith(@),
                                         !.log = @ \o << "release", "raise" >>]
                   ELSE [iterator EXCEPT !.pc = "execute", !.log = Append(@, "execute")]
    /\ UNCHANGED << tables, STRONGLY_TYPED_TERMS, last, literalCache, lifecycle, trans >>

\* result = res.fetchall(): every row of the one query.
iterator_fetchall ==
    /\ iterator.pc = "execute"
    /\ LET rows ==
               IF iterator.op = "triples"
               THEN union_select(triples_selects(tables, STRONGLY_TYPED_TERMS,
                                                 iterator.triple, iterator.context),
                                 FALSE, TRIPLE_SELECT_NO_ORDER)
               ELSE union_select(contexts_selects(tables, STRONGLY_TYPED_TERMS,
                                                  iterator.triple),
                                 TRUE, CONTEXT_SELECT)
       IN  iterator' = [iterator EXCEPT !.pc = "fetchall", !.rows = rows,
                                        !.log = Append(@, "fetchall")]
    /\ UNCHANGED << tables, STRONGLY_TYPED_TERMS, last, literalCache, lifecycle, trans >>

\* The end of the with statement.
iterator_release ==
    /\ iterator.pc = "fetchall"
    /\ iterator' = [iterator EXCEPT !.pc = "release",
                                    !.held = ConnectionAfterWith(@),
                                    !.log = Append(@, "release")]
    /\ UNCHANGED << tables, STRONGLY_TYPED_TERMS, last, literalCache, lifecycle, trans >>

\* The loop that fills tripleCoverage from the fetched rows (triples), or the
\* list of the context column (contexts).
iterator_decode ==
    /\ iterator.pc = "release"
    /\ IF iterator.op = "triples"
       THEN /\ iterator' =
                   [iterator EXCEPT
                       !.pc = "decode",
                       !.items = Cardinality({extractTriple(rt, iterator.context).triple :
                                                 rt \in DOMAIN iterator.rows}),
                       !.log = Append(@, "decode")]
            /\ literalCache' = extractTriples_store(literalCache, iterator.rows).cache
       ELSE /\ iterator' = [iterator EXCEPT !.pc = "decode",
                                            !.items = BagCardinality(iterator.rows),
                                            !.log = Append(@, "decode")]
            /\ UNCHANGED literalCache
    /\ UNCHANGED << tables, STRONGLY_TYPED_TERMS, last, lifecycle, trans >>

\* yield: the generator hands one element to the caller and is suspended.
iterator_yield ==
    /\ iterator.pc \in {"decode", "yield"}
    /\ iterator.items > 0
    /\ iterator' = [iterator EXCEPT !.pc = "yield", !.items = @ - 1,
                                    !.log = Append(@, "yield")]
    /\ UNCHANGED << tables, STRONGLY_TYPED_TERMS, last, literalCache, lifecycle, trans >>

\* The loop ends: StopIteration.
iterator_stop ==
    /\ iterator.pc \in {"decode", "yield"}
    /\ iterator.items = 0
    /\ iterator' = [iterator EXCEPT !.pc = "done", !.log = Append(@, "stop")]
    /\ UNCHANGED << tables, STRONGLY_TYPED_TERMS, last, literalCache, lifecycle, trans >>

\* The caller abandons the generator where it is suspended: before its first
\* statement, or at a yield.
iterator_close ==
    /\ iterator.pc \in {"start", "yield"}
    /\ iterator' = [iterator EXCEPT !.pc = "closed", !.log = Append(@, "close")]
    /\ UNCHANGED << tables, STRONGLY_TYPED_TERMS, last, literalCache, lifecycle, trans >>

\* The caller drops a generator that has ended.
iterator_del ==
    /\ iterator.pc \in {"done", "closed"}
    /\ iterator' = NoIterator
    /\ UNCHANGED << tables, STRONGLY_TYPED_TERMS, last, literalCache, lifecycle, trans >>

BufferPatterns ==
    {<< None, None, None >>, << None, URIRef("p"), None >>,
     << None, RDF_type, URIRef("x") >>}
DoGenerator ==
    \/ \E t \in BufferPatterns, c \in {NoContext, QuotedGraph("c2")} :
           triples_generator(t, c)
    \/ \E t \in BufferPatterns \cup {NoTriple} : contexts_generator(t)
DoIterate ==
    \/ iterator_connect
    \/ \E fails \in BOOLEAN : iterator_execute(fails)
    \/ iterator_fetchall
    \/ iterator_release
    \/ iterator_decode
    \/ iterator_yield
    \/ iterator_stop
DoAbandon == iterator_close \/ iterator_del
NextBuffer ==
    \/ DoScanAdd
    \/ Return
    \/ DoGenerator
    \/ DoIterate
    \/ DoAbandon
SpecBuffer == Init /\ [][NextBuffer]_vars

\* ------------------------------------------------- a reader and a writer
\* A second caller writes with addN() and remove(), statement by statement,
\* while the first reads with triples(), contexts() and __len__(). The engine
\* shows a reader the committed rows.
\* The committed rows after an execute inside a transaction that shows at once.
ExecutedAutocommit(committed, work) == work
\* The committed rows after connection.execute() inside a transaction: the
\* statement runs in the transaction trans = connection.begin() has opened.
Executed(committed, work) == committed

\* addN(): the commands are built, then trans = connection.begin().
addN_begin(quads) ==
    /\ trans.op = "none"
    /\ Rows(tables) + Len(quads) <= MaxRows
    /\ trans' = Trans("addN", commands_dict(quads, <<>>), 0, tables, tables)
    /\ UNCHANGED << tables, STRONGLY_TYPED_TERMS, last, literalCache, lifecycle, iterator >>
\* remove(): trans = connection.begin(), then the deletes.
remove_begin(triple, context) ==
    /\ trans.op = "none"
    /\ ~remove_delegates(triple, context)
    /\ trans' = Trans("remove", remove_deletes(STRONGLY_TYPED_TERMS, triple, context),
                      0, tables, tables)
    /\ UNCHANGED << tables, STRONGLY_TYPED_TERMS, last, literalCache, lifecycle, iterator >>
\* The next connection.execute() of the transaction; when it fails the
\* except branch rolls the transaction back.
trans_execute(fails) ==
    /\ trans.op # "none"
    /\ trans.executed < Len(trans.commands)
    /\ LET command == trans.commands[trans.executed + 1]
           work == IF trans.op = "addN" THEN ExecuteInsert(trans.work, command)
                   ELSE ExecuteDelete(trans.work, command)
       IN  IF fails \/ (trans.op = "addN" /\ InsertFails(command))
           THEN /\ tables' = Rollback(tables, Executed(tables, trans.work))
                /\ trans' = NoTrans
           ELSE /\ tables' = Executed(tables, work)
                /\ trans' = [trans EXCEPT !.executed = @ + 1, !.work = work]
    /\ UNCHANGED << STRONGLY_TYPED_TERMS, last, literalCache, lifecycle, iterator >>
\* trans.commit()
trans_commit ==
    /\ trans.op # "none"
    /\ trans.executed = Len(trans.commands)
    /\ tables' = Commit(tables, trans.work)
    /\ trans' = NoTrans
    /\ UNCHANGED << STRONGLY_TYPED_TERMS, last, literalCache, lifecycle, iterator >>

ConcurrentQuads == {<< a[1][1], a[1][2], a[1][3], a[2] >> : a \in ScanAdds}
ConcurrentBatches == UNION {[1..n -> ConcurrentQuads] : n \in 1..MaxBatch}
ConcurrentPatterns == {<< None, None, None >>, << None, URIRef("p"), None >>}
DoWrite ==
    \/ \E quads \in ConcurrentBatches : addN_begin(quads)
    \/ \E t \in ConcurrentPatterns, c \in {NoContext, Graph("c1")} : remove_begin(t, c)
    \/ \E fails \in BOOLEAN : trans_execute(fails)
    \/ trans_commit
DoRead ==
    /\ last.op = "idle"
    /\ \/ \E t \in ConcurrentPatterns, c \in {NoContext, QuotedGraph("c2")} : triples(t, c)
       \/ \E t \in ConcurrentPatterns \cup {NoTriple} : contexts(t)
       \/ \E c \in {NoContext, Graph("c1")} : len(c)
NextConcurrent ==
    \/ DoWrite
    \/ DoRead
    \/ Return
SpecConcurrent == Init /\ [][NextConcurrent]_vars

\* ------------------------------------------------- skolemise / deskolemise
\* The module-level functions, applied to a statement the caller holds:
\* skolemise first, deskolemise on its result.
SkolemTerms ==
    {URIRef("a"), URIRef("bnode:b"), BNode("b"), BNode("bnode:b"),
     Literal("bnode:b", "", "")}
SkolemStatements == SkolemTerms \X SkolemTerms \X SkolemTerms

InitSkolemise ==
    /\ tables = [type_statements |-> EmptyBag, asserted_statements |-> EmptyBag,
                 literal_statements |-> EmptyBag, quoted_statements |-> EmptyBag]
    /\ STRONGLY_TYPED_TERMS = FALSE
    /\ literalCache = << >>
    /\ \E statement \in SkolemStatements :
           last = Call("statement", statement, NoContext, FALSE, <<>>, <<>>, <<>>)
    /\ engine = Engine
    /\ database = table_names
    /\ iterator = NoIterator
    /\ trans = NoTrans
DoSkolemise ==
    /\ last.op = "statement"
    /\ last' = Call("skolemise", last.triple, NoContext, FALSE, <<>>, <<>>,
                    skolemise(last.triple))
    /\ UNCHANGED << tables, STRONGLY_TYPED_TERMS, literalCache >>
    /\ UNCHANGED lifecycle
    /\ UNCHANGED steps
DoDeskolemise ==
    /\ last.op = "skolemise"
    /\ last' = Call("deskolemise", last.triple, NoContext, FALSE, <<>>, <<>>,
                    deskolemise(last.result))
    /\ UNCHANGED << tables, STRONGLY_TYPED_TERMS, literalCache >>
    /\ UNCHANGED lifecycle
    /\ UNCHANGED steps
NextSkolemise == DoSkolemise \/ DoDeskolemise
SpecSkolemise == InitSkolemise /\ [][NextSkolemise]_vars

\* ------------------------------------------------------------------ claims
Range(f) == {f[i] : i \in DOMAIN f}
Failed(call) == "fail" \in Range(call.log)
Raised(call) == call.log # <<>> /\ call.log[Len(call.log)] = "raise"
Succeeded(call) == ~Failed(call)
WriteOps == {"add", "addN", "remove", "_remove_context"}
PartitionNames ==
    {"type_statements", "asserted_statements", "literal_statements", "quoted_statements"}
\* The (triple, context) pairs of a triples() result.
Pairs(result) ==
    UNION {{<< t, c >> : c \in DOMAIN result[t]} : t \in DOMAIN result}

\* C1: after add((s,p,o), ctx, quoted=False) has committed, triples((s,p,o), ctx)
\* yields exactly one entry, the entry's triple is (s,p,o), and ctx is among
\* its contexts.
C1_WriteReadConsistency ==
    (last.op = "add" /\ Succeeded(last) /\ ~last.quoted) =>
        LET r == triples_result(tables, STRONGLY_TYPED_TERMS, last.triple, last.context)
        IN  /\ DOMAIN r = {last.triple}
            /\ last.context \in DOMAIN r[last.triple]

\* C2: after remove(pattern, ctx) has committed, triples(pattern, ctx) yields
\* nothing, and removing the pattern again changes no table.
C2_RemoveThenNothing ==
    (last.op = "remove" /\ Succeeded(last)) =>
        LET again == remove_deletes(STRONGLY_TYPED_TERMS, last.triple, last.context)
        IN  /\ DOMAIN triples_result(tables, STRONGLY_TYPED_TERMS,
                                     last.triple, last.context) = {}
            /\ ExecuteDeletes(tables, again, Len(again)) = tables

\* C3: an addN in which an insert fails leaves every partition with the rows
\* it held before the call, and the failure is raised to the caller.
C3_AddNAtomic ==
    [][(last'.op = "addN" /\ Failed(last')) =>
            (tables' = tables /\ Raised(last'))]_vars
\* An addN whose second insert failed after its first was executed.
C3_Witness ==
    last.op = "addN" /\ last.log = << "begin", "execute", "fail", "rollback", "raise" >>

\* The partition the claim C4 names for a statement.
C4_Partition(triple, quoted) ==
    IF triple[2] = RDF_type /\ ~quoted THEN "type_statements"
    ELSE IF IsLiteral(triple[3]) THEN "literal_statements"
    ELSE IF quoted THEN "quoted_statements"
    ELSE "asserted_statements"
AssertedCopies(t, c) ==
    LET b == get_build_command(t, c, FALSE)
    IN  CopiesIn(b.row, tables[b.table])
\* C5: when (s,p,o) has been added under two different contexts c1 and c2 and
\* under no other, triples((s,p,o), None) has exactly one entry for (s,p,o),
\* and its contexts are c1 and c2, once each.
C5_MultiContext ==
    \A t \in Statements : \A c1 \in Contexts, c2 \in Contexts :
        (/\ c1 # c2
         /\ \A c \in Contexts : AssertedCopies(t, c) = IF c \in {c1, c2} THEN 1 ELSE 0)
        => LET r == triples_result(tables, STRONGLY_TYPED_TERMS, t, NoContext)
           IN  t \in DOMAIN r /\ r[t] = SetToBag({c1, c2})

\* The pattern with term x in slot i.
WithSlot(triple, i, x) == [triple EXCEPT ![i] = x]
\* C6: for a pattern with exactly one list-valued slot, triples_choices and
\* triples yield what triples yields for the patterns with each member of the
\* list in that slot, taken together, and nothing else.
C6_ListUnion ==
    (/\ last.op \in {"triples", "triples_choices"}
     /\ Cardinality({i \in 1..3 : IsList(last.triple[i])}) = 1)
    => LET i == CHOOSE i \in 1..3 : IsList(last.triple[i])
           members == Range(last.triple[i].items)
       IN  Pairs(last.result) =
               UNION {Pairs(triples_result(tables, STRONGLY_TYPED_TERMS,
                                           WithSlot(last.triple, i, x), last.context))
                        : x \in members}

\* The rows a partition holds under a context.
RowsUnder(table, context) ==
    Copies(table, {r \in DOMAIN table : r.context = context.identifier})
\* C7: __len__(ctx) with a context returns the rows of the type, quoted,
\* asserted and literal partitions under ctx, added up.
C7_LenOfContext ==
    (last.op = "__len__" /\ last.context # NoContext) =>
        last.result = RowsUnder(tables.type_statements, last.context)
                        + RowsUnder(tables.quoted_statements, last.context)
                        + RowsUnder(tables.asserted_statements, last.context)
                        + RowsUnder(tables.literal_statements, last.context)

\* C8: when a delete of remove or of _remove_context fails, the partitions
\* hold the rows they held before the call and the failure is raised.
C8_DeleteFailureRaised ==
    [][(last'.op \in {"remove", "_remove_context"} /\ Failed(last')) =>
            (tables' = tables /\ Raised(last'))]_vars

\* C9: the connection events of a write operation are a begin, the executes,
\* and then either one commit, or the failed execute, one rollback and the
\* raise.
C9_TransactionBoundary ==
    (last.op \in WriteOps) =>
        \E k \in 0..Len(last.log) :
            \/ last.log = << "begin" >> \o Executes(k) \o << "commit" >>
            \/ last.log = << "begin" >> \o Executes(k) \o << "fail", "rollback", "raise" >>

\* The rows of a table outside a context.
Outside(table, context) ==
    LET keep == {r \in DOMAIN table : r.context # context.identifier}
    IN  [r \in keep |-> table[r]]
\* C10: a committed remove((None, None, None), ctx) with a context deletes the
\* rows of ctx from all four partitions and no other row.
C10_RemoveWholeContext ==
    [][(/\ last'.op = "remove" /\ Succeeded(last')
        /\ last'.triple = << None, None, None >> /\ last'.context # NoContext)
       => \A p \in PartitionNames : tables'[p] = Outside(tables[p], last'.context)]_vars

\* C11: deskolemise(skolemise(s)) = s for every statement s, and skolemise
\* leaves every term of s that is not a blank node as it is.
C11_SkolemRoundTrip ==
    /\ last.op = "skolemise" =>
           \A i \in DOMAIN last.triple :
               last.triple[i].k # "B" => last.result[i] = last.triple[i]
    /\ last.op = "deskolemise" => last.result = last.triple

\* The placeholder accessors.
Unimplemented ==
    {"subjects", "objects", "predicate_objects", "subject_objects",
     "subject_predicates", "value"}
\* C12: a call of an unimplemented accessor raises, returns no result, and
\* leaves the rows of every partition and the literal cache as they were.
C12_UnimplementedRaises ==
    [][(last'.op \in Unimplemented) =>
            /\ last'.log = << "raise" >>
            /\ last'.result = <<>>
            /\ tables' = tables
            /\ literalCache' = literalCache]_vars
C12_Witness ==
    /\ last.op = "subjects" /\ Raised(last)
    /\ Rows(tables) > 0
    /\ DOMAIN literalCache # {}

\* The quads of a batch whose context is a quoted graph.
QuotedQuads(quads) == {i \in DOMAIN quads : IsQuotedGraph(quads[i][4])}
\* C13: a committed add with quoted = True puts its one row into the quoted
\* partition and leaves the type, asserted and literal partitions as they
\* were; a committed addN puts as many rows into the quoted partition as the
\* batch has quads with a quoted-graph context.
C13_QuotedPartition ==
    [][/\ (last'.op = "add" /\ Succeeded(last') /\ last'.quoted) =>
              /\ BagCardinality(tables'.quoted_statements)
                     = BagCardinality(tables.quoted_statements) + 1
              /\ \A q \in PartitionNames \ {"quoted_statements"} :
                     tables'[q] = tables[q]
       /\ (last'.op = "addN" /\ Succeeded(last')) =>
              BagCardinality(tables'.quoted_statements)
                  = BagCardinality(tables.quoted_statements)
                        + Cardinality(QuotedQuads(last'.quads))]_vars

\* The tables after add(triple, context, quoted = context is a quoted graph)
\* for each quad in turn.
RECURSIVE AddEach(_, _)
AddEach(tbls, quads) ==
    IF quads = <<>> THEN tbls
    ELSE LET q == Head(quads)
             c == get_build_command(<< q[1], q[2], q[3] >>, q[4], IsQuotedGraph(q[4]))
         IN  AddEach(ExecuteInsert(tbls, [table |-> c.table, params |-> << c.row >>]),
                     Tail(quads))
\* C14: after a committed addN(quads) every partition holds the rows it holds
\* after the adds of the quads, one by one.
C14_AddNIsAdds ==
    [][(last'.op = "addN" /\ Succeeded(last')) =>
            tables' = AddEach(tables, last'.quads)]_vars

\* The rows of a partition that triples(triple, context) reads: the rows its
\* select on that partition matches, none when the partition is not scanned.
TableTypeOf(q) ==
    CASE q = "type_statements" -> ASSERTED_TYPE_PARTITION
      [] q = "asserted_statements" -> ASSERTED_NON_TYPE_PARTITION
      [] q = "literal_statements" -> ASSERTED_LITERAL_PARTITION
      [] q = "quoted_statements" -> QUOTED_PARTITION
ReadRows(tbls, strict, triple, context, q) ==
    LET selects == triples_selects(tbls, strict, triple, context)
    IN  UNION {DOMAIN selects[i].rows :
                  i \in {j \in DOMAIN selects : selects[j].tableType = TableTypeOf(q)}}
\* C15: a committed remove(pattern, context) keeps, in its partition and with
\* all its copies, every row that triples(pattern, context) does not return
\* before the call; with no context it keeps the whole quoted partition.
C15_RemoveOnlyWhatIsRead ==
    [][(last'.op = "remove" /\ Succeeded(last')) =>
          \A q \in PartitionNames : \A r \in DOMAIN tables[q] :
              r \notin ReadRows(tables, STRONGLY_TYPED_TERMS, last'.triple,
                                last'.context, q)
                  => /\ r \in DOMAIN tables'[q]
                     /\ tables'[q][r] = tables[q][r]]_vars

\* The partitions a list of select components reads, and those of the call
\* the store has just served (a read leaves the tables as they were).
Scanned(selects) == {selects[i].tableType : i \in DOMAIN selects}
TriplesScanned ==
    Scanned(triples_selects(tables, STRONGLY_TYPED_TERMS, last.triple, last.context))
ContextsScanned ==
    Scanned(contexts_selects(tables, STRONGLY_TYPED_TERMS, last.triple))
IsATerm(predicate) == IsREGEXTerm(predicate) /\ regexp(predicate.v, RDF_type.v)

\* C16 (as stated): triples scans the type partition if and only if the
\* predicate is exactly is-a, is the wildcard None, or is a regex term that
\* matches is-a; when the predicate is exactly is-a neither the literal nor
\* the non-type asserted partition is scanned.
C16_TypePartition ==
    last.op = "triples" =>
        /\ ASSERTED_TYPE_PARTITION \in TriplesScanned
               <=> \/ last.triple[2] = RDF_type
                   \/ last.triple[2] = None
                   \/ IsATerm(last.triple[2])
        /\ last.triple[2] = RDF_type =>
               /\ ASSERTED_LITERAL_PARTITION \notin TriplesScanned
               /\ ASSERTED_NON_TYPE_PARTITION \notin TriplesScanned
\* C16 (amended): triples scans the type partition if and only if the
\* predicate is exactly is-a, is false (None, an empty list, an empty term),
\* or is a regex term that matches is-a; when the predicate is exactly is-a
\* neither the literal nor the non-type asserted partition is scanned.
C16_TypePartitionFalsy ==
    last.op = "triples" =>
        /\ ASSERTED_TYPE_PARTITION \in TriplesScanned
               <=> \/ last.triple[2] = RDF_type
                   \/ ~Truthy(last.triple[2])
                   \/ IsATerm(last.triple[2])
        /\ last.triple[2] = RDF_type =>
               /\ ASSERTED_LITERAL_PARTITION \notin TriplesScanned
               /\ ASSERTED_NON_TYPE_PARTITION \notin TriplesScanned
\* triples() with an empty list as predicate has returned the is-a statement
\* of the type partition.
C16_Witness ==
    /\ last.op = "triples"
    /\ last.triple[2] = List(<<>>)
    /\ ASSERTED_TYPE_PARTITION \in TriplesScanned
    /\ << URIRef("s"), RDF_type, URIRef("x") >> \in DOMAIN last.result

\* C17 (as stated): with STRONGLY_TYPED_TERMS off, for every predicate that is
\* not is-a and every object term, triples scans both the literal and the
\* non-type asserted partition.
C17_RelaxedScansBoth ==
    (last.op = "triples" /\ ~STRONGLY_TYPED_TERMS /\ last.triple[2] # RDF_type) =>
        /\ ASSERTED_LITERAL_PARTITION \in TriplesScanned
        /\ ASSERTED_NON_TYPE_PARTITION \in TriplesScanned
\* C17 (amended): with STRONGLY_TYPED_TERMS off, for every predicate that is
\* not is-a, triples scans the literal partition for every object term, and
\* the non-type asserted partition for every object term but a literal that
\* is true (a non-empty literal).
C17_RelaxedScansBothButLiteral ==
    (last.op = "triples" /\ ~STRONGLY_TYPED_TERMS /\ last.triple[2] # RDF_type) =>
        /\ ASSERTED_LITERAL_PARTITION \in TriplesScanned
        /\ ASSERTED_NON_TYPE_PARTITION \in TriplesScanned
               <=> ~(IsLiteral(last.triple[3]) /\ Truthy(last.triple[3]))
\* With the switch off, triples() with a literal object has read the literal
\* partition and not the asserted one, which holds a URI of the same string.
C17_Witness ==
    /\ last.op = "triples" /\ ~STRONGLY_TYPED_TERMS
    /\ last.triple[2] = URIRef("p")
    /\ last.triple[3] = Literal("x", "en", "")
    /\ tables.asserted_statements # EmptyBag
    /\ tables.literal_statements # EmptyBag
    /\ DOMAIN last.result = {<< URIRef("s"), URIRef("p"), Literal("x", "en", "") >>}

\* C18: for a predicate that is not is-a and an object term that is absent
\* or not a definite literal, triples and contexts scan the non-type asserted
\* partition, with STRONGLY_TYPED_TERMS on and off; in particular with the
\* switch on and a regex object term.
C18_AssertedScanned ==
    /\ (/\ last.op = "triples"
        /\ last.triple[2] # RDF_type
        /\ ~(IsLiteral(last.triple[3]) /\ Truthy(last.triple[3])))
           => ASSERTED_NON_TYPE_PARTITION \in TriplesScanned
    /\ (/\ last.op = "contexts" /\ last.triple # NoTriple
        /\ last.triple[2] # RDF_type
        /\ ~(IsLiteral(last.triple[3]) /\ Truthy(last.triple[3])))
           => ASSERTED_NON_TYPE_PARTITION \in ContextsScanned

\* C19: triples scans the quoted partition if and only if a context is
\* given, whatever the predicate; with context = None it returns what it
\* returns from a store whose quoted partition is empty.
C19_QuotedIffContext ==
    last.op = "triples" =>
        /\ QUOTED_PARTITION \in TriplesScanned <=> last.context # NoContext
        /\ last.context = NoContext =>
               last.result = triples_result([tables EXCEPT !.quoted_statements = EmptyBag],
                                            STRONGLY_TYPED_TERMS, last.triple, NoContext)
\* triples() with a context has returned a statement that only the quoted
\* partition holds.
C19_Witness ==
    /\ last.op = "triples"
    /\ last.context = QuotedGraph("c2")
    /\ tables.quoted_statements # EmptyBag
    /\ Rows(tables) = BagCardinality(tables.quoted_statements)
    /\ << URIRef("s"), URIRef("p"), URIRef("x") >> \in DOMAIN last.result

\* The (value, language, datatype) of the literals a triples() call decodes,
\* and those of them the store has not decoded before: each decode leaves an
\* entry in literalCache, under the key createTerm stores it with.
DecodedLiterals(tbls, strict, triple, context) ==
    LET result == union_select(triples_selects(tbls, strict, triple, context),
                               FALSE, TRIPLE_SELECT_NO_ORDER)
        literals == {rt \in DOMAIN result :
                        REVERSE_TERM_COMBINATIONS(rt.termComb)[3] = "L"}
    IN  {<< rt.object, rt.objLanguage, rt.objDatatype >> : rt \in literals}
FirstDecoded(cache, decoded) ==
    {d \in decoded : literalCache_set_key(d[1], d[2], d[3]) \notin DOMAIN cache}
Misses(log) == Cardinality({i \in DOMAIN log : log[i] = "miss"})
\* C20: a triples() call constructs a literal (a miss) only for a (value,
\* language, datatype) the store decodes for the first time, once for each;
\* when it decodes only literals decoded before, it writes no cache entry;
\* and no step of the store removes a cache entry.
C20_LiteralMemoized ==
    [][/\ last'.op = "triples" =>
              LET first == FirstDecoded(literalCache,
                               DecodedLiterals(tables, STRONGLY_TYPED_TERMS,
                                               last'.triple, last'.context))
              IN  /\ Misses(last'.log) <= Cardinality(first)
                  /\ first = {} => literalCache' = literalCache
       /\ \A k \in DOMAIN literalCache :
              k \in DOMAIN literalCache' /\ literalCache'[k] = literalCache[k]]_vars

\* The identifiers of the contexts a caller may ask for: those the store
\* holds statements in, and one it holds none in.
ContextIdentifiers == {"c1", "c2", "c3"}
\* C21: contexts(pattern) yields the context c if and only if
\* triples(pattern, c) yields at least one triple, and it yields each
\* context once; contexts() without a pattern is compared with the pattern
\* of three wildcards.
C21_ContextsAgreeWithTriples ==
    last.op = "contexts" =>
        LET pattern == IF last.triple = NoTriple THEN << None, None, None >>
                       ELSE last.triple
        IN  /\ \A id \in ContextIdentifiers :
                   URIRef(id) \in DOMAIN last.result
                       <=> DOMAIN triples_result(tables, STRONGLY_TYPED_TERMS, pattern,
                                                 Graph(id)) # {}
            /\ \A u \in DOMAIN last.result : last.result[u] = 1

\* contexts() with a pattern has yielded the one context that holds a match,
\* in a store that holds statements in two contexts.
C21_Witness ==
    /\ last.op = "contexts"
    /\ last.triple = << None, URIRef("p"), Literal("x", "en", "") >>
    /\ tables.literal_statements # EmptyBag
    /\ tables.quoted_statements # EmptyBag
    /\ DOMAIN last.result = {URIRef("c1")}

\* C22: __len__() with no context returns the rows of the type, asserted and
\* literal partitions added up, and counts no row of the quoted partition,
\* after any adds, addNs and removes.
C22_LenNoContext ==
    (last.op = "__len__" /\ last.context = NoContext) =>
        last.result = BagCardinality(tables.type_statements)
                        + BagCardinality(tables.asserted_statements)
                        + BagCardinality(tables.literal_statements)
\* __len__() has returned 1 for a store with one asserted and one quoted row.
C22_Witness ==
    /\ last.op = "__len__" /\ last.context = NoContext
    /\ BagCardinality(tables.asserted_statements) = 1
    /\ BagCardinality(tables.quoted_statements) = 1
    /\ last.result = 1

\* C23: destroy(configuration) on a store whose engine is not open (never
\* opened, or closed) opens the store and drops its tables: afterwards none
\* of the store's tables exists and the store holds an engine.
C23_DestroyClosedStore ==
    [][(last'.op = "destroy" /\ engine = NoEngine) =>
            /\ database' \cap table_names = {}
            /\ engine'.cls = "Engine"]_vars

\* The places of an event in what a generator has done.
Places(log, event) == {i \in DOMAIN log : log[i] = event}
\* C24: a generator of triples() or contexts() runs one query; when it yields
\* its first element the query has been executed, every row fetched and the
\* connection released, and nothing but yields follows; a generator that is
\* suspended at a yield, abandoned or ended holds no connection.
C24_ReadBuffered ==
    LET log == iterator.log
        yields == Places(log, "yield")
    IN  /\ Cardinality(Places(log, "connect")) <= 1
        /\ Cardinality(Places(log, "execute")) <= 1
        /\ yields # {} =>
               LET first == Min(yields)
               IN  /\ \E e \in Places(log, "execute"), f \in Places(log, "fetchall"),
                         r \in Places(log, "release") : e < f /\ f < r /\ r < first
                   /\ \A i \in DOMAIN log :
                          i > first => log[i] \in {"yield", "stop", "close"}
        /\ iterator.pc \in {"yield", "closed", "done", "none", "start"} =>
               iterator.held = 0
\* A caller has abandoned a generator after its first element, with
\* elements left.
C24_Witness ==
    /\ iterator.pc = "closed"
    /\ Cardinality(Places(iterator.log, "yield")) = 1
    /\ iterator.items > 0
    /\ iterator.held = 0

\* What a read call returns from the rows tbls.
ReadOps == {"triples", "contexts", "__len__"}
ReadOf(call, tbls) ==
    CASE call.op = "triples" ->
             triples_result(tbls, STRONGLY_TYPED_TERMS, call.triple, call.context)
      [] call.op = "contexts" ->
             contexts_result(tbls, STRONGLY_TYPED_TERMS, call.triple)
      [] call.op = "__len__" -> len_result(tbls, call.context)
\* The rows once every statement of a transaction has been executed.
AllExecuted(t) ==
    IF t.op = "addN" THEN ExecuteInserts(t.begun, t.commands, Len(t.commands))
    ELSE ExecuteDeletes(t.begun, t.commands, Len(t.commands))
\* C25: a triples, contexts or __len__ query made while an addN or a remove
\* of another caller is in progress returns what it returns from the rows
\* before that call, or what it returns from the rows with all of that call's
\* inserts, or all of its deletes, done.
C25_NoPartialEffect ==
    [][(last.op = "idle" /\ last'.op \in ReadOps /\ trans.op # "none") =>
            \/ last'.result = ReadOf(last', trans.begun)
            \/ last'.result = ReadOf(last', AllExecuted(trans))]_vars
\* __len__() has returned the count of before, while an addN has executed
\* the first of its two statements.
C25_Witness ==
    /\ last.op = "__len__" /\ last.context = NoContext
    /\ trans.op = "addN"
    /\ Len(trans.commands) = 2 /\ trans.executed = 1
    /\ Rows(trans.begun) = 0
    /\ Rows(trans.work) = 1
    /\ last.result = 0

====
